---------------------------- MODULE Spec2Model ----------------------------
(***************************************************************************)
(* Aurion proxy (src/server.js): the fact memory (facts table, factLookup, *)
(* factUpsert), the /feedback route that teaches a fact, and the /aurion   *)
(* and /aurion_stream routes that answer a prompt.                         *)
(*                                                                         *)
(* Text is a sequence of one-character strings, so that String.trim is a   *)
(* computation and not the identity.  The JavaScript values null,          *)
(* undefined and '' are all falsy and the code only ever tests them with   *)
(* `!x`, `x || ''` or `if (x)`: all three are the empty sequence here.     *)
(***************************************************************************)
EXTENDS Naturals, Sequences, FiniteSets

VARIABLES
  facts,            \* rows of table facts, in insertion order
  history,          \* rows of table history, in insertion order
  lastInsertRowid,  \* the connection's last_insert_rowid()
  inflight,         \* request handlers suspended at an await
  resp,             \* the request handled last and the HTTP response sent to it
  taught,           \* history variable: trimmed question -> answer last stored
  now,              \* the clock behind CURRENT_TIMESTAMP, in days
  embedUp,          \* whether the embedding runtime (EMBED_MODEL) is reachable
  asked,            \* history variable: the ttlDays each stored fact's request carried
  norm,             \* a text under the normalisation of the fact memory
  cache,            \* rows of table cache (key is its primary key)
  hours,            \* the clock behind Date.now(), in hours
  relay             \* an upstream NDJSON body under the stream read loop

vars == <<facts, history, lastInsertRowid, inflight, resp, taught,
          now, embedUp, asked, norm, cache, hours, relay>>

\* what no request handler writes
env == <<now, embedUp, norm, hours, relay>>

----------------------------------------------------------------------------
(* Bounds of the model. *)

MaxFacts == 2       \* rows the facts table may hold
MaxHistory == 2     \* rows the history table may hold
MaxInflight == 1    \* handlers that may be suspended at once
MaxDays == 2        \* days the clock may advance
MaxLen == 3         \* length of the texts put through the normalisation alone

----------------------------------------------------------------------------
(* Texts the requests carry. *)

NULL == <<>>

QuiEsTuPunct == <<"Q","u","i"," ","e","s","-","t","u"," ","?">>
QuiEsTuPlain == <<"q","u","i"," ","e","s"," ","t","u">>
ZorgPadded   == <<" ","z","o","r","g"," ">>
Blank        == <<" ">>

\* the question of a POST /feedback, the prompt of a POST /aurion[_stream]
Questions == {QuiEsTuPunct, ZorgPadded, Blank, NULL}
Prompts   == {QuiEsTuPunct, QuiEsTuPlain, ZorgPadded, NULL}

AurionName   == <<"A","u","r","i","o","n">>
KronosPadded == <<" ","K","r","o","n","o","s"," ">>

Answers == {AurionName, KronosPadded, Blank, NULL}

\* what the language-model runtime may return for a generation
LLMTexts == {<<"o","k",".">>}

----------------------------------------------------------------------------
(* String.prototype.trim *)

WhiteSpace == {" ", "\t", "\n", "\r"}

RECURSIVE TrimStart(_)
TrimStart(s) ==
  IF s = <<>> THEN s
  ELSE IF Head(s) \in WhiteSpace THEN TrimStart(Tail(s)) ELSE s

RECURSIVE TrimEnd(_)
TrimEnd(s) ==
  IF s = <<>> THEN s
  ELSE IF s[Len(s)] \in WhiteSpace THEN TrimEnd(SubSeq(s, 1, Len(s) - 1)) ELSE s

\* faulty variant: at most one whitespace character is removed at each end
TrimOnce(s) ==
  LET t == IF s # <<>> /\ Head(s) \in WhiteSpace THEN Tail(s) ELSE s
  IN  IF t # <<>> /\ t[Len(t)] \in WhiteSpace THEN SubSeq(t, 1, Len(t) - 1) ELSE t

Trim(s) == TrimEnd(TrimStart(s))

TrimmedQuestions == {Trim(q) : q \in Questions} \ {NULL}

----------------------------------------------------------------------------
(* Table facts.  AUTOINCREMENT ids; no statement of the program deletes    *)
(* from facts, so the next id is one more than the largest id in use.      *)

FactsCols == {"id", "q", "a", "question", "correct_answer", "created_at"}

MaxId(rows) ==
  IF rows = <<>> THEN 0
  ELSE CHOOSE m \in {rows[i].id : i \in 1..Len(rows)} :
         \A i \in 1..Len(rows) : rows[i].id <= m

\* faulty variant: ORDER BY id ASC, the oldest row wins
SelectOldest(rows, key, col, qtxt) ==
  LET hits == {i \in 1..Len(rows) : rows[i][key] = qtxt}
  IN  IF hits = {} THEN NULL
      ELSE LET low == CHOOSE i \in hits : \A j \in hits : rows[i].id <= rows[j].id
           IN  rows[low][col]

\* SELECT <col> ... WHERE <key> = qtxt ORDER BY id DESC LIMIT 1
SelectLatest(rows, key, col, qtxt) ==
  LET hits == {i \in 1..Len(rows) : rows[i][key] = qtxt}
  IN  IF hits = {} THEN NULL
      ELSE LET top == CHOOSE i \in hits : \A j \in hits : rows[j].id <= rows[i].id
           IN  rows[top][col]

\* faulty variant: when no row matches, the most recent fact is returned
FactLookupNearest(rows, question, dbOk) ==
  LET qtxt == Trim(question)
      row  == SelectLatest(rows, "q", "a", qtxt)
  IN  IF qtxt = NULL \/ ~dbOk THEN NULL
      ELSE IF row # NULL THEN row
      ELSE IF rows = <<>> THEN NULL
      ELSE rows[Len(rows)].a

\* faulty variant: a row is taken to expire a day after its created_at,
\* whether or not a time to live was asked for
FactLookupExpiring(rows, question, dbOk) ==
  LET qtxt == Trim(question)
      live == SelectSeq(rows, LAMBDA r : now <= r.created_at + 1)
  IN  IF qtxt = NULL \/ ~dbOk THEN NULL
      ELSE SelectLatest(live, "q", "a", qtxt)

\* factLookup(question); dbOk = FALSE is a statement that throws
FactLookup(rows, question, dbOk) ==
  LET qtxt == Trim(question)
  IN  IF qtxt = NULL THEN NULL
      ELSE IF ~dbOk THEN NULL             \* catch: warn, fall to return null
      ELSE
        LET row  == IF {"q", "a"} \subseteq FactsCols
                    THEN SelectLatest(rows, "q", "a", qtxt) ELSE NULL
            row2 == IF {"question", "correct_answer"} \subseteq FactsCols
                    THEN SelectLatest(rows, "question", "correct_answer", qtxt)
                    ELSE NULL
        IN  IF row # NULL THEN row
            ELSE IF row2 # NULL THEN row2
            ELSE NULL

\* created_at DEFAULT CURRENT_TIMESTAMP: the day of the INSERT
FactRow(id, qq, aa) ==
  [id |-> id, q |-> qq, a |-> aa, question |-> NULL, correct_answer |-> NULL,
   created_at |-> now]

LegacyFactRow(id, qq, aa) ==
  [id |-> id, q |-> NULL, a |-> NULL, question |-> qq, correct_answer |-> aa,
   created_at |-> now]

\* faulty variant: INSERT OR REPLACE on a table whose key is not q: the row
\* stored last is replaced, whatever its question
FactUpsertReplaceLast(rows, q, a, dbOk) ==
  LET qq == Trim(q)
      aa == Trim(a)
  IN  IF qq = NULL \/ aa = NULL THEN rows
      ELSE IF ~dbOk THEN rows
      ELSE IF rows = <<>> THEN <<FactRow(1, qq, aa)>>
      ELSE Append(SubSeq(rows, 1, Len(rows) - 1), FactRow(MaxId(rows) + 1, qq, aa))

\* faulty variant: the answer is stored as received, not trimmed
FactUpsertRawAnswer(rows, q, a, dbOk) ==
  LET qq == Trim(q)
      aa == Trim(a)
  IN  IF qq = NULL \/ aa = NULL THEN rows
      ELSE IF ~dbOk THEN rows
      ELSE Append(rows, FactRow(MaxId(rows) + 1, qq, a))

\* factUpsert(q, a): the rows afterwards; dbOk = FALSE is an INSERT that throws
FactUpsert(rows, q, a, dbOk) ==
  LET qq == Trim(q)
      aa == Trim(a)
  IN  IF qq = NULL \/ aa = NULL THEN rows
      ELSE IF ~dbOk THEN rows             \* catch: warn, nothing stored
      ELSE IF {"q", "a"} \subseteq FactsCols
        THEN Append(rows, FactRow(MaxId(rows) + 1, qq, aa))
      ELSE IF {"question", "correct_answer"} \subseteq FactsCols
        THEN Append(rows, LegacyFactRow(MaxId(rows) + 1, qq, aa))
      ELSE Append(rows, FactRow(MaxId(rows) + 1, qq, aa))

----------------------------------------------------------------------------
(* Table history and pushHistory.                                          *)

\* a request without session_id: `session_id || null`, `if (session_id)`
NoSession == NULL

S1 == <<"s", "1">>
S2 == <<"s", "2">>
Sessions == {NoSession, S1, S2}

HistoryRow(id, session_id, role, content) ==
  [id |-> id, session_id |-> session_id, role |-> role, content |-> content,
   created_at |-> now]

\* pushHistory(session_id, user_id, role, content, style)
PushHistory(rows, session_id, role, content) ==
  Append(rows, HistoryRow(MaxId(rows) + 1, session_id, role, content))

\* faulty variant: the assistant row is inserted before the user row
PushExchangeSwapped(rows, session_id, prompt, reply) ==
  PushHistory(PushHistory(rows, session_id, "assistant", reply),
              session_id, "user", prompt)

\* faulty variant: the assistant row holds the reply before its final trim
PushExchangePadded(rows, session_id, prompt, reply) ==
  PushHistory(PushHistory(rows, session_id, "user", prompt),
              session_id, "assistant", reply \o <<" ">>)

\* the two inserts every answering path makes back to back
PushExchange(rows, session_id, prompt, reply) ==
  PushHistory(PushHistory(rows, session_id, "user", prompt),
              session_id, "assistant", reply)

\* the last n elements of a sequence, in order
LastN(rows, n) ==
  IF Len(rows) <= n THEN rows ELSE SubSeq(rows, Len(rows) - n + 1, Len(rows))

\* the `limit` argument of both calls of pullRecentHistory
ContextLimit == 6

\* pullRecentHistory(session_id, limit): ORDER BY id DESC LIMIT ?, reversed.
\* The SELECT keeps role and content; the rows are kept whole here so that
\* the session each came from can be told.
PullRecentHistory(rows, session_id, limit) ==
  IF session_id # NoSession
  THEN LastN(SelectSeq(rows, LAMBDA h : h.session_id = session_id), limit)
  ELSE LastN(rows, limit)

----------------------------------------------------------------------------
(* Intents and post-processing, on the texts of this model.                *)

IdentityReply == <<"J","e"," ","s","u","i","s"," ","A","u","r","i","o","n",".">>

\* the members of Prompts that the regular expression of handleIdentity
\* accepts: optional blanks, "qui es[- ]?tu", optional blanks, optional "?"
IdentityPrompts == {QuiEsTuPunct, QuiEsTuPlain}

HandleIdentity(text) == IF text \in IdentityPrompts THEN IdentityReply ELSE NULL

\* a prompt handleTime accepts (its pattern contains `heure`), and one
\* looksLikeResearch accepts (`prix`), as sent and in lower case
HeurePrompt == <<"h", "e", "u", "r", "e">>
PrixPadded  == <<" ", "P", "r", "i", "x">>
PrixPlain   == <<"p", "r", "i", "x">>

\* handleTime(text): the date and time written into the reply are not modelled
TimeReply == <<"I", "l", " ", "e", "s", "t", " ", "m", "i", "d", "i", ".">>

HandleTime(text) == IF text = HeurePrompt THEN TimeReply ELSE NULL

\* looksLikeResearch(text), case-insensitive, on the prompts of this model
LooksLikeResearch(text) == text \in {PrixPadded, PrixPlain}

\* String.toLowerCase on the letters these texts are made of
ToLowerCase(text) ==
  [i \in 1..Len(text) |-> IF text[i] = "P" THEN "p" ELSE text[i]]

\* the cache key of handleResearch: `tavily:${text.trim().toLowerCase()}`
ResearchKey(text) == <<"tavily:">> \o ToLowerCase(Trim(text))

\* TAVILY_API_KEY is configured
TavilyKeySet == TRUE

\* CACHE_TTL_MS, in hours
CACHE_TTL_HOURS == 6

NoResults   == <<"P", "a", "s", " ", "d", "e", " ", "r", "e", "s", ".">>
Unavailable == <<"R", "e", "c", "h", ".", " ", "i", "n", "d", "i", "s", "p", ".">>

\* faulty variant: the age of the entry is not looked at
CacheGetAnyAge(rows, key, t) ==
  LET hit == {r \in rows : r.key = key}
  IN  IF hit = {} THEN [answer |-> NULL, rows |-> rows]
      ELSE [answer |-> (CHOOSE r \in hit : TRUE).answer, rows |-> rows]

\* cacheGet(key) at time t: the answer returned (NULL: miss) and the rows
\* of the table afterwards
CacheGet(rows, key, t) ==
  LET hit == {r \in rows : r.key = key}
  IN  IF hit = {} THEN [answer |-> NULL, rows |-> rows]
      ELSE LET row == CHOOSE r \in hit : TRUE
           IN  IF t - row.created_at > CACHE_TTL_HOURS
               THEN [answer |-> NULL, rows |-> rows \ {row}]
               ELSE [answer |-> row.answer, rows |-> rows]

\* cacheSet(key, answer) at time t: INSERT OR REPLACE on the primary key
CacheSet(rows, key, answer, t) ==
  {r \in rows : r.key # key} \cup
    {[key |-> key, answer |-> answer, created_at |-> t]}

\* brandName(style)
BrandName == "Aurion"

\* raw.replace(/Gemma/gi, brandName(style)).replace(/\bPhi\b/gi, ...): in the
\* texts of the model a whole name is one element
Brand(text) ==
  IF \A i \in 1..Len(text) : text[i] \notin {"Gemma", "Phi"} THEN text
  ELSE [i \in 1..Len(text) |-> IF text[i] \in {"Gemma", "Phi"} THEN BrandName
                               ELSE text[i]]

\* the phrases denoise cuts from, each one element of a text
NoisePhrases == {"nous sommes", "je suis content", "avez-vous des questions"}

\* the text up to the first such phrase
CutAtNoise(text) ==
  LET at == {i \in 1..Len(text) : text[i] \in NoisePhrases}
  IN  IF at = {} THEN text
      ELSE SubSeq(text, 1, (CHOOSE i \in at : \A j \in at : i <= j) - 1)

\* denoise(text): on one line, everything from the first such phrase to the
\* end of the line is removed, then the text is trimmed
Denoise(text) == Trim(CutAtNoise(text))

\* seemsCut(text): non-empty and not ending in . ! ? or an ellipsis
SeemsCut(text) ==
  LET t == Trim(text)
  IN  t # NULL /\ t[Len(t)] \notin {".", "!", "?", "..."}

\* tidy(stripAutoIntro(text)): on LLMTexts only the final trim has an effect
Tidy(text) == Trim(text)

----------------------------------------------------------------------------
(* Requests and responses.                                                 *)

Idle ==
  [ep |-> "idle", pc |-> "idle", prompt |-> NULL, calls |-> 0,
   consulted |-> FALSE, threw |-> FALSE, mem |-> NULL, acc |-> NULL,
   session_id |-> NoSession, written |-> NULL]

NoResponse ==
  [op |-> "none", status |-> 0, id |-> 0, reply |-> NULL, mode |-> "none",
   calls |-> 0, stored |-> FALSE, threw |-> FALSE, written |-> NULL,
   cached |-> FALSE]

\* the handlers that may be suspended at once
Slots == DOMAIN inflight

\* the rows the history table may hold: one more exchange for each handler
\* beyond MaxInflight
HistoryRoom == MaxHistory + 2 * (Cardinality(Slots) - MaxInflight)

\* no text is being normalised
NoText == [raw |-> NULL, text |-> NULL, once |-> NULL, applied |-> 0]

\* no upstream body is being relayed
NoRelay == [body |-> NULL, rest |-> NULL, acc |-> NULL, written |-> NULL]

\* suspended handlers fill the slots from 1 upwards, in order of arrival
FreeSlot(s) ==
  /\ inflight[s].ep = "idle"
  /\ \A t \in Slots : t < s => inflight[t].ep # "idle"

\* the handler in slot s has ended
Release(s) ==
  [t \in Slots |-> IF t < s THEN inflight[t]
                  ELSE IF t + 1 \in Slots THEN inflight[t + 1]
                  ELSE Idle]

Init ==
  /\ facts = <<>>
  /\ history = <<>>
  /\ lastInsertRowid = 0
  /\ inflight = [s \in 1..MaxInflight |-> Idle]
  /\ resp = NoResponse
  /\ taught = [q \in TrimmedQuestions |-> NULL]
  /\ now = 0
  /\ embedUp = TRUE
  /\ asked = <<>>
  /\ norm = NoText
  /\ cache = {}
  /\ hours = 0
  /\ relay = NoRelay

----------------------------------------------------------------------------
(* POST /feedback *)

\* the route reads question and correct_answer from the body and nothing
\* else: a ttlDays the body carries (0: none) reaches no statement
FeedbackBody(question, correct_answer, ttlDays, dbOk) ==
  IF question = NULL \/ correct_answer = NULL
  THEN /\ resp' = [NoResponse EXCEPT !.op = "feedback", !.status = 400]
       /\ UNCHANGED <<facts, history, lastInsertRowid, inflight, taught, asked, cache, env>>
  ELSE LET rows   == FactUpsert(facts, question, correct_answer, dbOk)
           stored == rows # facts
           rowid  == IF stored THEN MaxId(rows) ELSE lastInsertRowid
       IN  /\ Len(rows) <= MaxFacts
           /\ facts' = rows
           /\ lastInsertRowid' = rowid
           /\ taught' = IF stored
                        THEN [taught EXCEPT ![Trim(question)] = Trim(correct_answer)]
                        ELSE taught
           /\ resp' = [NoResponse EXCEPT !.op = "feedback", !.status = 200,
                                         !.id = rowid, !.stored = stored]
           /\ asked' = IF stored THEN Append(asked, ttlDays) ELSE asked
           /\ UNCHANGED <<history, inflight, cache, env>>

\* a body with question and correct_answer only
Feedback(question, correct_answer, dbOk) ==
  FeedbackBody(question, correct_answer, 0, dbOk)

----------------------------------------------------------------------------
(* POST /aurion *)

AurionReply(reply, mode, calls, threw) ==
  [NoResponse EXCEPT !.op = "aurion", !.status = 200, !.reply = reply,
                     !.mode = mode, !.calls = calls, !.threw = threw]

\* the handler answers without a model call: both rows, then the response
AnswerNow(session_id, prompt, reply, mode, threw) ==
  /\ Len(history) + 2 <= HistoryRoom
  /\ history' = PushExchange(history, session_id, prompt, reply)
  /\ lastInsertRowid' = MaxId(history')
  /\ resp' = AurionReply(reply, mode, 0, threw)

\* the synchronous head of the handler, up to its first await that leaves
\* the process: the search of handleResearch or the first model call
AurionBody(prompt, session_id, dbOk) ==
  IF prompt = NULL
  THEN /\ resp' = [NoResponse EXCEPT !.op = "aurion", !.status = 400]
       /\ UNCHANGED <<facts, history, lastInsertRowid, inflight, taught, asked, cache, env>>
  ELSE LET mem   == FactLookup(facts, prompt, dbOk)
           idt   == HandleIdentity(prompt)
           tm    == HandleTime(prompt)
           threw == Trim(prompt) # NULL /\ ~dbOk
           rsch  == TavilyKeySet /\ LooksLikeResearch(prompt)
           got   == CacheGet(cache, ResearchKey(prompt), hours)
       IN  IF mem # NULL
           THEN /\ AnswerNow(session_id, prompt, mem, "fact", threw)
                /\ UNCHANGED <<facts, inflight, taught, asked, cache, env>>
           ELSE IF idt # NULL
           THEN /\ AnswerNow(session_id, prompt, idt, "identity", threw)
                /\ UNCHANGED <<facts, inflight, taught, asked, cache, env>>
           ELSE IF tm # NULL
           THEN /\ AnswerNow(session_id, prompt, tm, "time", threw)
                /\ UNCHANGED <<facts, inflight, taught, asked, cache, env>>
           ELSE IF rsch /\ got.answer # NULL
           THEN /\ Len(history) + 2 <= HistoryRoom
                /\ history' = PushExchange(history, session_id, prompt, got.answer)
                /\ lastInsertRowid' = MaxId(history')
                /\ resp' = [AurionReply(got.answer, "research", 0, threw)
                              EXCEPT !.cached = TRUE]
                /\ cache' = got.rows
                /\ UNCHANGED <<facts, inflight, taught, asked, env>>
           ELSE IF rsch
           THEN \E s \in Slots :
                  /\ FreeSlot(s)
                  /\ inflight' = [inflight EXCEPT ![s] =
                       [Idle EXCEPT !.ep = "aurion", !.pc = "search",
                                    !.prompt = prompt, !.consulted = TRUE,
                                    !.threw = threw, !.mem = mem,
                                    !.session_id = session_id]]
                  /\ cache' = got.rows
                  /\ UNCHANGED <<facts, history, lastInsertRowid, resp, taught, asked, env>>
           ELSE \E s \in Slots :
                  /\ FreeSlot(s)
                  /\ inflight' = [inflight EXCEPT ![s] =
                       [Idle EXCEPT !.ep = "aurion", !.pc = "llm",
                                    !.prompt = prompt, !.calls = 1,
                                    !.consulted = TRUE, !.threw = threw,
                                    !.mem = mem, !.session_id = session_id]]
                  /\ UNCHANGED <<facts, history, lastInsertRowid, resp, taught, asked, cache, env>>

\* a body without session_id
Aurion(prompt, dbOk) == AurionBody(prompt, NoSession, dbOk)

\* renderContext(pullRecentHistory(session_id, 6)): the rows a handler of
\* /aurion or /aurion_stream puts into the prompt of its model call.  They
\* are read in the step that makes the call, go out with it, and are not
\* used by the handler afterwards.
ContextOf(session_id) == PullRecentHistory(history, session_id, ContextLimit)

\* the step makes the first model call of a new handler
CallsModel ==
  \E s \in Slots : inflight[s].pc = "idle" /\ inflight'[s].pc = "llm"

\* the search of handleResearch returns; out = NULL is a result without items
SearchReturns(s, out) ==
  LET r     == inflight[s]
      reply == IF out = NULL THEN NoResults ELSE out
  IN  /\ r.pc = "search"
      /\ cache' = IF out = NULL THEN cache
                  ELSE CacheSet(cache, ResearchKey(r.prompt), out, hours)
      /\ IF r.ep = "aurion"
         THEN /\ Len(history) + 2 <= HistoryRoom
              /\ history' = PushExchange(history, r.session_id, r.prompt, reply)
              /\ lastInsertRowid' = MaxId(history')
              /\ resp' = AurionReply(reply, "research", 0, r.threw)
         ELSE /\ resp' = [NoResponse EXCEPT !.op = "aurion_stream",
                            !.status = 200, !.reply = reply, !.mode = "research"]
              /\ UNCHANGED <<history, lastInsertRowid>>
      /\ inflight' = Release(s)
      /\ UNCHANGED <<facts, taught, asked, env>>

\* the search of handleResearch fails: catch, a reply, nothing cached
SearchFails(s) ==
  LET r == inflight[s]
  IN  /\ r.pc = "search"
      /\ IF r.ep = "aurion"
         THEN /\ Len(history) + 2 <= HistoryRoom
              /\ history' = PushExchange(history, r.session_id, r.prompt, Unavailable)
              /\ lastInsertRowid' = MaxId(history')
              /\ resp' = AurionReply(Unavailable, "research", 0, r.threw)
         ELSE /\ resp' = [NoResponse EXCEPT !.op = "aurion_stream",
                            !.status = 200, !.reply = Unavailable,
                            !.mode = "research"]
              /\ UNCHANGED <<history, lastInsertRowid>>
      /\ inflight' = Release(s)
      /\ UNCHANGED <<facts, taught, asked, cache, env>>

\* faulty variant: a handler whose lookup found nothing before the model call
\* clears its prompt's facts after it, acting on what it read before the await
AurionLLMReturnSweeping(s, text) ==
  LET r     == inflight[s]
      reply == Tidy(text)
      keep  == {i \in 1..Len(facts) : r.mem # NULL \/ facts[i].q # Trim(r.prompt)}
  IN  /\ r.ep = "aurion"
      /\ r.pc \in {"llm", "complete"}
      /\ Len(history) + 2 <= HistoryRoom
      /\ history' = PushExchange(history, r.session_id, r.prompt, reply)
      /\ lastInsertRowid' = MaxId(history')
      /\ resp' = AurionReply(reply, "llm", r.calls, r.threw)
      /\ inflight' = Release(s)
      /\ facts' = SelectSeq(facts, LAMBDA f : r.mem # NULL \/ f.q # Trim(r.prompt))
      /\ asked' = [i \in 1..Cardinality(keep) |->
                     asked[CHOOSE k \in keep :
                             Cardinality({j \in keep : j < k}) = i - 1]]
      /\ UNCHANGED <<taught, cache, env>>

\* the reply when the retry too comes back empty
Daccord == <<"D", "'", "a", "c", "c", "o", "r", "d", ".">>

\* faulty variant: the continuation is asked for again while the text looks cut
AurionLLMStepLooping(s, text, retries) ==
  LET r    == inflight[s]
      base == IF r.pc = "llm" THEN Tidy(Brand(text))
              ELSE Tidy(r.acc \o <<" ">> \o text)
  IN  /\ r.ep = "aurion"
      /\ r.pc \in {"llm", "complete"}
      /\ IF SeemsCut(base)
         THEN /\ inflight' = [inflight EXCEPT ![s] =
                   [r EXCEPT !.pc = "complete", !.calls = r.calls + 1,
                             !.acc = base]]
              /\ UNCHANGED <<facts, history, lastInsertRowid, resp, taught, asked, cache, env>>
         ELSE /\ Len(history) + 2 <= HistoryRoom
              /\ history' = PushExchange(history, r.session_id, r.prompt, Denoise(base))
              /\ lastInsertRowid' = MaxId(history')
              /\ resp' = AurionReply(Denoise(base), "llm", r.calls, r.threw)
              /\ inflight' = Release(s)
              /\ UNCHANGED <<facts, taught, asked, cache, env>>

\* a model call of /aurion returns: the main call, ensureComplete's, or (in
\* the variant of the handler that has one, retries = TRUE) the retry made
\* when the reply is empty
AurionLLMStep(s, text, retries) ==
  LET r     == inflight[s]
      base  == IF r.pc = "llm" THEN Tidy(Brand(text))
               ELSE IF r.pc = "complete" THEN Tidy(r.acc \o <<" ">> \o text)
               ELSE Tidy(text)
      reply == Denoise(Tidy(base))
      final == IF r.pc = "retry" /\ reply = NULL THEN Daccord ELSE reply
  IN  /\ r.ep = "aurion"
      /\ r.pc \in (IF retries THEN {"llm", "complete", "retry"}
                   ELSE {"llm", "complete"})
      /\ IF r.pc = "llm" /\ SeemsCut(base)
         THEN /\ inflight' = [inflight EXCEPT ![s] =
                   [r EXCEPT !.pc = "complete", !.calls = r.calls + 1,
                             !.acc = base]]
              /\ UNCHANGED <<facts, history, lastInsertRowid, resp, taught, asked, cache, env>>
         ELSE IF retries /\ r.pc # "retry" /\ Trim(reply) = NULL
         THEN /\ inflight' = [inflight EXCEPT ![s] =
                   [r EXCEPT !.pc = "retry", !.calls = r.calls + 1,
                             !.acc = NULL]]
              /\ UNCHANGED <<facts, history, lastInsertRowid, resp, taught, asked, cache, env>>
         ELSE /\ Len(history) + 2 <= HistoryRoom
              /\ history' = PushExchange(history, r.session_id, r.prompt, final)
              /\ lastInsertRowid' = MaxId(history')
              /\ resp' = AurionReply(final, "llm", r.calls, r.threw)
              /\ inflight' = Release(s)
              /\ UNCHANGED <<facts, taught, asked, cache, env>>

\* the handler without the empty-reply retry
AurionLLMReturn(s, text) == AurionLLMStep(s, text, FALSE)

\* faulty variant: the prompt is recorded before the failure is known
AurionLLMThrowsLogging(s) ==
  LET r == inflight[s]
  IN  /\ r.ep = "aurion"
      /\ r.pc \in {"llm", "complete", "retry"}
      /\ Len(history) + 1 <= HistoryRoom
      /\ history' = PushHistory(history, r.session_id, "user", r.prompt)
      /\ lastInsertRowid' = MaxId(history')
      /\ resp' = [NoResponse EXCEPT !.op = "aurion", !.calls = r.calls]
      /\ inflight' = Release(s)
      /\ UNCHANGED <<facts, taught, asked, cache, env>>

\* a model call of /aurion throws: the handler has no try around it, the
\* rejection ends it and the request is left without a response (status 0)
AurionLLMThrows(s) ==
  LET r == inflight[s]
  IN  /\ r.ep = "aurion"
      /\ r.pc \in {"llm", "complete", "retry"}
      /\ resp' = [NoResponse EXCEPT !.op = "aurion", !.calls = r.calls]
      /\ inflight' = Release(s)
      /\ UNCHANGED <<facts, history, lastInsertRowid, taught, asked, cache, env>>

----------------------------------------------------------------------------
(* POST /aurion_stream *)

\* the response of the streaming path: what was written to the client, and
\* the status the handler set last (500: res.status(500).json(...))
StreamReply(status, written, calls) ==
  [NoResponse EXCEPT !.op = "aurion_stream", !.status = status,
                     !.reply = IF status = 200 THEN written ELSE NULL,
                     !.mode = "llm", !.calls = calls, !.written = written]

\* the head of the handler: the context is read first, then the intents
\* (which record nothing), then the streaming model call
AurionStreamBody(prompt, session_id) ==
  IF prompt = NULL
  THEN /\ resp' = [NoResponse EXCEPT !.op = "aurion_stream", !.status = 400]
       /\ UNCHANGED <<facts, history, lastInsertRowid, inflight, taught, asked, cache, env>>
  ELSE LET tm   == HandleTime(prompt)
           rsch == TavilyKeySet /\ LooksLikeResearch(prompt)
           got  == CacheGet(cache, ResearchKey(prompt), hours)
       IN  IF tm # NULL
           THEN /\ resp' = [NoResponse EXCEPT !.op = "aurion_stream",
                              !.status = 200, !.reply = tm, !.mode = "time"]
                /\ UNCHANGED <<facts, history, lastInsertRowid, inflight, taught, asked, cache, env>>
           ELSE IF rsch /\ got.answer # NULL
           THEN /\ resp' = [NoResponse EXCEPT !.op = "aurion_stream",
                              !.status = 200, !.reply = got.answer,
                              !.mode = "research", !.cached = TRUE]
                /\ cache' = got.rows
                /\ UNCHANGED <<facts, history, lastInsertRowid, inflight, taught, asked, env>>
           ELSE IF rsch
           THEN \E s \in Slots :
                  /\ FreeSlot(s)
                  /\ inflight' = [inflight EXCEPT ![s] =
                       [Idle EXCEPT !.ep = "aurion_stream", !.pc = "search",
                                    !.prompt = prompt,
                                    !.session_id = session_id]]
                  /\ cache' = got.rows
                  /\ UNCHANGED <<facts, history, lastInsertRowid, resp, taught, asked, env>>
           ELSE \E s \in Slots :
                  /\ FreeSlot(s)
                  /\ inflight' = [inflight EXCEPT ![s] =
                       [Idle EXCEPT !.ep = "aurion_stream", !.pc = "llm",
                                    !.prompt = prompt, !.calls = 1,
                                    !.session_id = session_id]]
                  /\ UNCHANGED <<facts, history, lastInsertRowid, resp, taught, asked, cache, env>>

\* a body without session_id
AurionStream(prompt) == AurionStreamBody(prompt, NoSession)

\* one read of the loop: the piece is added to acc as received and written
\* to the client with the brand name put in
StreamRead(s, piece) ==
  LET r == inflight[s]
  IN  /\ r.ep = "aurion_stream"
      /\ r.pc = "llm"
      /\ Len(r.acc) + Len(piece) <= MaxLen
      /\ inflight' = [inflight EXCEPT ![s] =
           [r EXCEPT !.acc = r.acc \o piece,
                     !.written = r.written \o Brand(piece)]]
      /\ UNCHANGED <<facts, history, lastInsertRowid, resp, taught, asked, cache, env>>

\* the rest of the stream has been relayed to its end, or ensureComplete's
\* call returns: the continuation goes to history only, the response ends
StreamLLMReturn(s, text) ==
  LET r       == inflight[s]
      acc     == IF r.pc = "llm" THEN r.acc \o text ELSE r.acc
      written == IF r.pc = "llm" THEN r.written \o Brand(text) ELSE r.written
      base    == IF r.pc = "llm" THEN Tidy(acc)
                 ELSE Tidy(r.acc \o <<" ">> \o text)
      clean   == Denoise(Tidy(base))
  IN  /\ r.ep = "aurion_stream"
      /\ r.pc \in {"llm", "complete"}
      /\ IF r.pc = "llm" /\ SeemsCut(base)
         THEN /\ inflight' = [inflight EXCEPT ![s] =
                   [r EXCEPT !.pc = "complete", !.calls = r.calls + 1,
                             !.acc = base, !.written = written]]
              /\ UNCHANGED <<facts, history, lastInsertRowid, resp, taught, asked, cache, env>>
         ELSE /\ Len(history) + 2 <= HistoryRoom
              /\ history' = PushExchange(history, r.session_id, r.prompt, clean)
              /\ lastInsertRowid' = MaxId(history')
              /\ resp' = StreamReply(200, written, r.calls)
              /\ inflight' = Release(s)
              /\ UNCHANGED <<facts, taught, asked, cache, env>>

\* a read of the stream or a model call of /aurion_stream throws: catch,
\* res.status(500).json(...), whatever has been written before
StreamLLMThrows(s) ==
  LET r == inflight[s]
  IN  /\ r.ep = "aurion_stream"
      /\ r.pc \in {"llm", "complete"}
      /\ resp' = StreamReply(500, r.written, r.calls)
      /\ inflight' = Release(s)
      /\ UNCHANGED <<facts, history, lastInsertRowid, taught, asked, cache, env>>

----------------------------------------------------------------------------

Next ==
  \/ \E q \in Questions, a \in Answers, dbOk \in BOOLEAN : Feedback(q, a, dbOk)
  \/ \E p \in Prompts, dbOk \in BOOLEAN : Aurion(p, dbOk)
  \/ \E s \in Slots, t \in LLMTexts : AurionLLMReturn(s, t)
  \/ \E p \in Prompts : AurionStream(p)
  \/ \E s \in Slots, t \in LLMTexts : StreamLLMReturn(s, t)
  \/ \E s \in Slots : StreamLLMThrows(s)

Spec == Init /\ [][Next]_vars

----------------------------------------------------------------------------
(* The server over several days, with the embedding runtime coming and     *)
(* going.  Neither is written by a handler: the clock only stamps          *)
(* created_at, and the runtime named by EMBED_MODEL is never called.       *)

\* the ttlDays a /feedback body may carry; 0 is a body without one
TTLDays == {0, 1}

EnvQuestions == {ZorgPadded}
EnvAnswers   == {AurionName, KronosPadded}
EnvPrompts   == {ZorgPadded, QuiEsTuPlain}

\* a day passes
Tick ==
  /\ now < MaxDays
  /\ now' = now + 1
  /\ UNCHANGED <<facts, history, lastInsertRowid, inflight, resp, taught,
                 embedUp, asked, norm, cache, hours, relay>>

\* the embedding runtime goes down or comes back
EmbedFlips ==
  /\ embedUp' = ~embedUp
  /\ UNCHANGED <<facts, history, lastInsertRowid, inflight, resp, taught,
                 now, asked, norm, cache, hours, relay>>

NextEnv ==
  \/ \E q \in EnvQuestions, a \in EnvAnswers, d \in TTLDays :
       FeedbackBody(q, a, d, TRUE)
  \/ \E p \in EnvPrompts : Aurion(p, TRUE)
  \/ \E s \in Slots, t \in LLMTexts : AurionLLMReturn(s, t)
  \/ Tick
  \/ EmbedFlips

SpecEnv == Init /\ [][NextEnv]_vars

----------------------------------------------------------------------------
(* The normalisation of a question on its own: what factLookup and         *)
(* factUpsert do to the text before it reaches the table, applied to every *)
(* text over a small alphabet, and applied again to its own result.        *)

Alphabet == {" ", "\n", "Q", "?"}

Texts == UNION {[1..n -> Alphabet] : n \in 0..MaxLen}

InitNorm ==
  /\ facts = <<>>
  /\ history = <<>>
  /\ lastInsertRowid = 0
  /\ inflight = [s \in 1..MaxInflight |-> Idle]
  /\ resp = NoResponse
  /\ taught = [q \in TrimmedQuestions |-> NULL]
  /\ now = 0
  /\ embedUp = TRUE
  /\ asked = <<>>
  /\ norm \in {[NoText EXCEPT !.raw = s, !.text = s] : s \in Texts}
  /\ cache = {}
  /\ hours = 0
  /\ relay = NoRelay

\* String(question || '').trim()
Normalize ==
  /\ norm.applied < 2
  /\ norm' = [norm EXCEPT !.text = Trim(norm.text),
                          !.once = IF norm.applied = 0 THEN Trim(norm.text)
                                   ELSE norm.once,
                          !.applied = norm.applied + 1]
  /\ UNCHANGED <<facts, history, lastInsertRowid, inflight, resp, taught,
                 now, embedUp, asked, cache, hours, relay>>

NextNorm == Normalize

SpecNorm == InitNorm /\ [][NextNorm]_vars

----------------------------------------------------------------------------
(* Conversations: requests of several sessions, with every kind of answer  *)
(* of /aurion: a taught fact, the identity, the time, a web search, the     *)
(* model, and with model calls that fail.                                  *)

ChatQuestions == {ZorgPadded}
ChatAnswers   == {AurionName}
ChatPrompts   == {QuiEsTuPlain, HeurePrompt, PrixPlain, ZorgPadded, NULL}
ChatSessions  == {NoSession, S1, S2}
SearchTexts   == {<<"1", "0", "e">>}

NextChat ==
  \/ \E q \in ChatQuestions, a \in ChatAnswers : Feedback(q, a, TRUE)
  \/ \E p \in ChatPrompts, sid \in ChatSessions : AurionBody(p, sid, TRUE)
  \/ \E s \in Slots, out \in SearchTexts : SearchReturns(s, out)
  \/ \E s \in Slots : SearchFails(s)
  \/ \E s \in Slots, t \in LLMTexts : AurionLLMReturn(s, t)
  \/ \E s \in Slots : AurionLLMThrows(s)
  \/ \E p \in ChatPrompts, sid \in ChatSessions : AurionStreamBody(p, sid)
  \/ \E s \in Slots, t \in LLMTexts : StreamLLMReturn(s, t)
  \/ \E s \in Slots : StreamLLMThrows(s)

SpecChat == Init /\ [][NextChat]_vars

----------------------------------------------------------------------------
(* Concurrent requests: one handler more than MaxInflight may be suspended *)
(* at a model call while others record their exchange.                     *)

RacePrompts == {QuiEsTuPlain, ZorgPadded}

InitRace ==
  /\ facts = <<>>
  /\ history = <<>>
  /\ lastInsertRowid = 0
  /\ inflight = [s \in 1..(MaxInflight + 1) |-> Idle]
  /\ resp = NoResponse
  /\ taught = [q \in TrimmedQuestions |-> NULL]
  /\ now = 0
  /\ embedUp = TRUE
  /\ asked = <<>>
  /\ norm = NoText
  /\ cache = {}
  /\ hours = 0
  /\ relay = NoRelay

NextRace ==
  \/ \E p \in RacePrompts : Aurion(p, TRUE)
  \/ \E s \in Slots, t \in LLMTexts : AurionLLMReturn(s, t)
  \/ \E p \in RacePrompts : AurionStream(p)
  \/ \E s \in Slots, t \in LLMTexts : StreamLLMReturn(s, t)

SpecRace == InitRace /\ [][NextRace]_vars

----------------------------------------------------------------------------
(* Generation: what the model returns may be complete, cut, empty, noise   *)
(* that denoise removes, or carry the name of the underlying model, and a  *)
(* call may fail.  Both variants of the /aurion handler are covered: with  *)
(* and without the retry on an empty reply.                                *)

GenPrompts == {ZorgPadded}

GenTexts ==
  {<<"o", "k", ".">>, <<"o", "k">>, NULL, <<"nous sommes">>, <<"Gemma", ".">>}

NextGen ==
  \/ \E p \in GenPrompts : Aurion(p, TRUE)
  \/ \E s \in Slots, t \in GenTexts, retries \in BOOLEAN :
       AurionLLMStep(s, t, retries)
  \/ \E s \in Slots : AurionLLMThrows(s)

SpecGen == Init /\ [][NextGen]_vars

----------------------------------------------------------------------------
(* Streaming: the answer of the model arrives in pieces that are written   *)
(* to the client as they come; a read or the completion call may fail.     *)

\* what one read of the stream may bring
GenPieces == {<<"Gemma">>}

\* the rest of a stream, or what the completion call returns
StreamTexts == {<<".">>, <<" ">>, NULL}

NextStream ==
  \/ \E p \in GenPrompts : AurionStream(p)
  \/ \E s \in Slots, piece \in GenPieces : StreamRead(s, piece)
  \/ \E s \in Slots, t \in StreamTexts : StreamLLMReturn(s, t)
  \/ \E s \in Slots : StreamLLMThrows(s)

SpecStream == Init /\ [][NextStream]_vars

----------------------------------------------------------------------------
(* Web search over some hours: the same question asked again and again,    *)
(* through both routes, while the clock behind Date.now() advances.        *)

MaxHours == 7       \* hours the clock may advance

CachePrompts == {PrixPadded, PrixPlain}

\* what the search returns: a summary, or a result without items
CacheTexts == {<<"1", "0", "e">>, <<"1", "2", "e">>, NULL}

\* an hour passes
TickHour ==
  /\ hours < MaxHours
  /\ hours' = hours + 1
  /\ UNCHANGED <<facts, history, lastInsertRowid, inflight, resp, taught,
                 now, embedUp, asked, norm, cache, relay>>

NextCache ==
  \/ \E p \in CachePrompts : Aurion(p, TRUE)
  \/ \E p \in CachePrompts : AurionStream(p)
  \/ \E s \in Slots, out \in CacheTexts : SearchReturns(s, out)
  \/ \E s \in Slots : SearchFails(s)
  \/ TickHour

SpecCache == Init /\ [][NextCache]_vars

----------------------------------------------------------------------------
(* The read loop of the streaming path on its own: an NDJSON body of the   *)
(* model runtime, delivered in chunks of any size.  A byte is one element: *)
(* "{" and "}" stand for the JSON text around the response field, the      *)
(* elements between them are its value.                                    *)

MaxLines == 2       \* lines of an upstream body

\* the lines the runtime sends: a response of one character, or none
Lines == {<<"{", "a", "}">>, <<"{", "b", "}">>, <<"{", "}">>}

RECURSIVE BodiesOf(_)
BodiesOf(n) ==
  IF n = 0 THEN {<<>>}
  ELSE {l \o <<"\n">> \o b : l \in Lines, b \in BodiesOf(n - 1)}

Bodies == UNION {BodiesOf(n) : n \in 1..MaxLines}

\* chunk.split('\n')
RECURSIVE Split(_, _)
Split(text, line) ==
  IF text = <<>> THEN <<line>>
  ELSE IF Head(text) = "\n" THEN <<line>> \o Split(Tail(text), <<>>)
  ELSE Split(Tail(text), Append(line, Head(text)))

\* JSON.parse(line) succeeds on a whole line only
Parses(line) ==
  /\ Len(line) >= 2
  /\ line[1] = "{"
  /\ line[Len(line)] = "}"
  /\ \A i \in 2..(Len(line) - 1) : line[i] \notin {"{", "}"}

\* j.response || ''
ResponseOf(line) == SubSeq(line, 2, Len(line) - 1)

\* the body of the for loop over the lines of one chunk: st is <<acc, written>>
RECURSIVE RelayLines(_, _)
RelayLines(lines, st) ==
  IF lines = <<>> THEN st
  ELSE LET line  == Head(lines)
           piece == IF Trim(line) # NULL /\ Parses(line) THEN ResponseOf(line)
                    ELSE NULL
       IN  RelayLines(Tail(lines), <<st[1] \o piece, st[2] \o Brand(piece)>>)

\* the response fields of all lines of a body, in order
RECURSIVE Responses(_)
Responses(lines) ==
  IF lines = <<>> THEN <<>>
  ELSE (IF Parses(Head(lines)) THEN ResponseOf(Head(lines)) ELSE <<>>)
         \o Responses(Tail(lines))

InitRelay ==
  /\ facts = <<>>
  /\ history = <<>>
  /\ lastInsertRowid = 0
  /\ inflight = [s \in 1..MaxInflight |-> Idle]
  /\ resp = NoResponse
  /\ taught = [q \in TrimmedQuestions |-> NULL]
  /\ now = 0
  /\ embedUp = TRUE
  /\ asked = <<>>
  /\ norm = NoText
  /\ cache = {}
  /\ hours = 0
  /\ relay \in {[NoRelay EXCEPT !.body = b, !.rest = b] : b \in Bodies}

\* reader.read() delivers the next n bytes; the loop relays their lines
ReadChunk(n) ==
  LET chunk == SubSeq(relay.rest, 1, n)
      st    == RelayLines(Split(chunk, <<>>), <<relay.acc, relay.written>>)
  IN  /\ n <= Len(relay.rest)
      /\ relay' = [relay EXCEPT !.rest = SubSeq(relay.rest, n + 1, Len(relay.rest)),
                                !.acc = st[1], !.written = st[2]]
      /\ UNCHANGED <<facts, history, lastInsertRowid, inflight, resp, taught,
                     now, embedUp, asked, norm, cache, hours>>

NextRelay == \E n \in 1..Len(relay.rest) : ReadChunk(n)

SpecRelay == InitRelay /\ [][NextRelay]_vars

----------------------------------------------------------------------------
(* Properties of the fact memory.                                          *)

\* the upserts that store a row: question and answer non-empty once trimmed,
\* and the INSERT does not throw
Teaches(q, a) == Trim(q) # NULL /\ Trim(a) # NULL /\ Feedback(q, a, TRUE)

\* C1: round trip.  After an upsert of (q, a), both non-empty once trimmed,
\* a lookup of q finds a fact and returns the trimmed a.  The lookup is an
\* exact match on the trimmed text, the strictest threshold there is.
C1_RoundTrip ==
  [][(resp'.op = "feedback" /\ resp'.stored) =>
       \A q \in Questions, a \in Answers :
         Teaches(q, a) => FactLookup(facts', q, TRUE) = Trim(a)]_vars

\* an upsert whose question and answer needed trimming has stored its row,
\* and the lookup of its question returns the trimmed answer
C1_Witness ==
  /\ resp.op = "feedback" /\ resp.stored
  /\ facts[Len(facts)].q = Trim(ZorgPadded)
  /\ FactLookup(facts, ZorgPadded, TRUE) = Trim(KronosPadded)
  /\ Trim(KronosPadded) # KronosPadded

\* C2: questions that differ only in case, whitespace or punctuation address
\* the same fact: after Upsert("Qui es-tu ?", "Aurion"), Lookup("qui es tu")
\* returns "Aurion".
C2_Insensitive ==
  [][Teaches(QuiEsTuPunct, AurionName) =>
       FactLookup(facts', QuiEsTuPlain, TRUE) = AurionName]_vars

\* C3: after Upsert(q, a1) and Upsert(q, a2), in every later state a lookup
\* of q returns a2, the answer stored last for q, and so never a1.
C3_LatestAnswer ==
  \A q \in Questions :
    (Trim(q) # NULL /\ taught[Trim(q)] # NULL) =>
      FactLookup(facts, q, TRUE) = taught[Trim(q)]

\* a question was taught twice with different answers, and a /aurion request
\* has since been answered from memory with the second one
C3_Witness ==
  /\ Len(facts) = 2
  /\ facts[1].q = facts[2].q
  /\ facts[1].a # facts[2].a
  /\ resp.op = "aurion" /\ resp.mode = "fact" /\ resp.reply = facts[2].a

\* C4: the store holds at most one fact per question: an upsert of a question
\* that is already stored overwrites its row and adds none.
C4_UniqueKey ==
  \A i, j \in 1..Len(facts) : facts[i].q = facts[j].q => i = j

\* C5: the fact memory is consulted before any model call, and a hit is
\* the answer: a request to /aurion or /aurion_stream whose prompt the memory
\* holds a fact for is answered with that fact, and starts no model call.
C5_FactCheckFirst ==
  [][\A p \in Prompts :
       (FactLookup(facts, p, TRUE) # NULL /\ (Aurion(p, TRUE) \/ AurionStream(p)))
       => /\ resp'.mode = "fact"
          /\ resp'.reply = FactLookup(facts, p, TRUE)
          /\ resp'.calls = 0
          /\ inflight' = inflight]_vars

\* C6: a stored fact can be forgotten: from every state in which a lookup of
\* q finds a fact, the program has a step after which the lookup of q finds
\* none.
C6_Forgettable ==
  \A q \in Questions :
    FactLookup(facts, q, TRUE) # NULL =>
      ENABLED (Next /\ FactLookup(facts', q, TRUE) = NULL)

\* C7: an upsert whose question or answer is empty once trimmed is refused
\* (status 400) and stores nothing.
C7_Validation ==
  [][\A q \in Questions, a \in Answers :
       ((Trim(q) = NULL \/ Trim(a) = NULL)
          /\ \E dbOk \in BOOLEAN : Feedback(q, a, dbOk))
       => (resp'.status = 400 /\ facts' = facts)]_vars

\* C8: the id in a successful (status 200) answer of /feedback is the id of
\* the facts row that holds the submitted question and answer.
C8_ReturnsFactId ==
  [][\A q \in Questions, a \in Answers :
       ((\E dbOk \in BOOLEAN : Feedback(q, a, dbOk)) /\ resp'.status = 200)
       => \E i \in 1..Len(facts') :
            /\ facts'[i].id = resp'.id
            /\ facts'[i].q = Trim(q)
            /\ facts'[i].a = Trim(a)]_vars

\* C9: a lookup that could not be carried out is reported as an error: the
\* request is not answered, or continued, as if no fact had matched.
C9_FailureIsNotMiss ==
  /\ resp.threw => resp.status = 500
  /\ \A s \in Slots : ~inflight[s].threw

\* C10: a lookup returns an answer only if a stored fact has exactly the
\* trimmed question, and the answer is the one an upsert stored last for it;
\* in every other case it returns the not-found value.  What /aurion sends as
\* a fact is such an answer.
C10_NeverGuesses ==
  /\ \A p \in Prompts \cup Questions, dbOk \in BOOLEAN :
       LET r == FactLookup(facts, p, dbOk)
       IN  r # NULL =>
             /\ Trim(p) \in TrimmedQuestions
             /\ r = taught[Trim(p)]
             /\ \E i \in 1..Len(facts) : facts[i].q = Trim(p) /\ facts[i].a = r
  /\ resp.mode = "fact" =>
       \E i \in 1..Len(facts) : facts[i].a = resp.reply /\ resp.reply # NULL

\* /aurion has answered from memory while another question, stored too, was
\* not the one asked
C10_Witness ==
  /\ resp.op = "aurion" /\ resp.mode = "fact"
  /\ resp.reply = Trim(KronosPadded)
  /\ Len(facts) = 2
  /\ facts[1].q # facts[2].q
  /\ FactLookup(facts, QuiEsTuPlain, TRUE) = NULL

----------------------------------------------------------------------------
(* Time to live and the embedding runtime.                                 *)

\* the row a lookup of the trimmed text qtxt reads: the one with the largest id
LatestIndex(rows, qtxt) ==
  CHOOSE i \in 1..Len(rows) :
    /\ rows[i].q = qtxt
    /\ \A j \in 1..Len(rows) : rows[j].q = qtxt => rows[j].id <= rows[i].id

\* row i was stored with a time to live and that time has passed at day t;
\* a row is written once, so the time of its last update is its created_at
Expired(rows, ttls, t, i) == ttls[i] > 0 /\ t > rows[i].created_at + ttls[i]

\* C11: a fact whose time to live has passed is never returned by a lookup:
\* when a lookup of q returns an answer, the fact it read is not expired.
C11_ExpiredNotReturned ==
  \A q \in Questions :
    FactLookup(facts, q, TRUE) # NULL =>
      ~Expired(facts, asked, now, LatestIndex(facts, Trim(q)))

\* C13: an upsert made while the embedding runtime is down fails and commits
\* nothing: the facts table is as before and the route does not answer 200.
C13_AtomicOnProviderFailure ==
  [][\A q \in Questions, a \in Answers, d \in TTLDays :
       (~embedUp /\ Trim(q) # NULL /\ Trim(a) # NULL /\ FeedbackBody(q, a, d, TRUE))
       => (facts' = facts /\ resp'.status # 200)]_vars

\* C17: every lookup sweeps first: right after a request that looked a prompt
\* up, whatever the prompt, the facts table holds no expired fact.
C17_SweepBeforeRead ==
  [][\A p \in Prompts :
       (Trim(p) # NULL /\ Aurion(p, TRUE))
       => \A i \in 1..Len(facts') : ~Expired(facts', asked', now', i)]_vars

\* C20: a fact stored without a time to live is never removed as time passes
\* and lookups run: its row stays, and a lookup of its question keeps
\* returning the same answer until an upsert of that question replaces it.
C20_NoTTLNoExpiry ==
  [][\A i \in 1..Len(facts) :
       asked[i] = 0 =>
         /\ Len(facts') >= i
         /\ facts'[i] = facts[i]
         /\ FactLookup(facts', facts[i].q, TRUE) # NULL
         /\ \/ FactLookup(facts', facts[i].q, TRUE) = FactLookup(facts, facts[i].q, TRUE)
            \/ \E q \in Questions, a \in Answers, d \in TTLDays :
                 Trim(q) = facts[i].q /\ FeedbackBody(q, a, d, TRUE)]_vars

\* two days after a fact was stored without a time to live, /aurion has
\* answered its question from memory
C20_Witness ==
  /\ resp.op = "aurion" /\ resp.mode = "fact"
  /\ history # <<>> /\ history[Len(history)].created_at >= 2
  /\ \E i \in 1..Len(facts) :
       /\ asked[i] = 0
       /\ facts[i].created_at = 0
       /\ resp.reply = facts[i].a
       /\ \A j \in 1..Len(facts) : facts[j].q = facts[i].q => j = i

----------------------------------------------------------------------------
(* Similarity.  The embedding provider is an external service; here it is  *)
(* a test double with vectors of known cosine similarity: 0.80 between the *)
(* two spellings of "qui es-tu", 0.60 and 0 between each and "zorg", and   *)
(* the zero vector for any other text.  Similarities are compared without  *)
(* division or roots, by their squares' numerators and denominators (all   *)
(* components are non-negative, so every dot product is).                  *)

Embed(text) ==
  CASE text = QuiEsTuPunct     -> <<5, 0>>
    [] text = QuiEsTuPlain     -> <<4, 3>>
    [] text = Trim(ZorgPadded) -> <<0, 5>>
    [] OTHER                   -> <<0, 0>>

Dot(u, v) == u[1] * v[1] + u[2] * v[2]

\* the square of the cosine similarity of u and v, as <<numerator,
\* denominator>>; 0 when either vector has zero magnitude
Sim2(u, v) ==
  IF Dot(u, u) = 0 \/ Dot(v, v) = 0 THEN <<0, 1>>
  ELSE <<Dot(u, v) * Dot(u, v), Dot(u, u) * Dot(v, v)>>

\* the similarity of the trimmed texts s and t is at least pct / 100
SimAtLeast(s, t, pct) ==
  LET x == Sim2(Embed(Trim(s)), Embed(Trim(t)))
  IN  100 * 100 * x[1] >= pct * pct * x[2]

\* similarity(p, s) <= similarity(p, t)
SimLeq(p, s, t) ==
  LET x == Sim2(Embed(Trim(p)), Embed(Trim(s)))
      y == Sim2(Embed(Trim(p)), Embed(Trim(t)))
  IN  x[1] * y[2] <= y[1] * x[2]

\* similarity thresholds, in hundredths
Thresholds == {80, 85}

\* C12: a lookup reports a match exactly when some stored fact's similarity
\* to the question is at least the threshold: with a best similarity of 0.80
\* there is no match at threshold 0.85 and there is one at threshold 0.80.
C12_ThresholdBoundary ==
  \A p \in Prompts, pct \in Thresholds :
    (FactLookup(facts, p, TRUE) # NULL)
      <=> (\E i \in 1..Len(facts) : SimAtLeast(p, facts[i].q, pct))

\* C19: when a lookup reports a match, the fact it returns is one whose
\* similarity to the question is at least that of every other stored fact.
C19_BestMatchWins ==
  \A p \in Prompts :
    LET r == FactLookup(facts, p, TRUE)
    IN  r # NULL =>
          \E i \in 1..Len(facts) :
            /\ facts[i].a = r
            /\ \A j \in 1..Len(facts) : SimLeq(p, facts[j].q, facts[i].q)

\* /aurion has answered a prompt from memory while a fact for another
\* question, strictly less similar to the prompt, was stored too
C19_Witness ==
  /\ resp.op = "aurion" /\ resp.mode = "fact"
  /\ Len(history) = 2 /\ Len(facts) = 2
  /\ \E i, j \in 1..Len(facts) :
       /\ facts[i].a = resp.reply
       /\ FactLookup(facts, history[1].content, TRUE) = facts[i].a
       /\ facts[j].a # facts[i].a
       /\ ~SimLeq(history[1].content, facts[i].q, facts[j].q)

----------------------------------------------------------------------------
(* Embeddings, identity, concurrency, normalisation.                       *)

\* the tables the schema creates
Tables == {"facts", "history", "devices", "sessions", "cache"}

\* the rows that hold an embedding: no table has a vector column and no
\* statement stores one
Embeddings == {}

\* C14: in every state each stored fact has exactly one embedding, and each
\* embedding belongs to a stored fact.
C14_Paired ==
  /\ \A i \in 1..Len(facts) :
       Cardinality({e \in Embeddings : e.fact_id = facts[i].id}) = 1
  /\ \A e \in Embeddings : \E i \in 1..Len(facts) : facts[i].id = e.fact_id

\* C16: an upsert of a question that is already stored answers with the id
\* the fact got when it was created; a new id is given only when the
\* question was not stored.
C16_SameIdentity ==
  [][\A q \in Questions, a \in Answers :
       Teaches(q, a) =>
         LET hits == {i \in 1..Len(facts) : facts[i].q = Trim(q)}
         IN  IF hits # {}
             THEN resp'.id = facts[CHOOSE i \in hits : \A j \in hits : i <= j].id
             ELSE \A i \in 1..Len(facts) : resp'.id # facts[i].id]_vars

\* C18: a lookup never removes a fact an upsert has just stored, however the
\* two interleave: a step of a /aurion request, before or after its model
\* call, leaves the facts table as it finds it, the rows stored while the
\* request was waiting included.  (Stated as: the step keeps the table, or it
\* is not a step of a /aurion request.)
C18_LookupKeepsRefreshed ==
  [][\/ facts' = facts
     \/ ~ \/ \E p \in Prompts, dbOk \in BOOLEAN : Aurion(p, dbOk)
          \/ \E s \in Slots, t \in LLMTexts : AurionLLMReturn(s, t)]_vars

\* a /aurion request whose lookup found nothing has ended after its model
\* call, and a fact for its prompt, stored during the call, is found
C18_Witness ==
  /\ resp.op = "aurion" /\ resp.mode = "llm" /\ ~resp.threw
  /\ Len(history) = 2
  /\ FactLookup(facts, history[1].content, TRUE) # NULL
  /\ FactLookup(facts, history[1].content, TRUE) = taught[Trim(history[1].content)]

\* C15: normalising a question twice gives what normalising it once gives.
C15_Idempotent == norm.applied = 2 => norm.text = norm.once

\* a text with whitespace at both ends has been normalised twice
C15_Witness ==
  /\ norm.applied = 2
  /\ norm.raw = <<"\n", "Q", " ">>
  /\ norm.text = <<"Q">>

----------------------------------------------------------------------------
(* Frame of the upsert.                                                    *)

\* C21: an upsert of q changes nothing about the facts of other questions:
\* every row stored before is still there, unchanged, and a lookup of a
\* question whose trimmed text differs from q's returns what it returned.
C21_UpsertFrame ==
  [][\A q \in Questions, a \in Answers :
       (facts' # facts /\ \E dbOk \in BOOLEAN : Feedback(q, a, dbOk)) =>
         /\ \A i \in 1..Len(facts) : Len(facts') >= i /\ facts'[i] = facts[i]
         /\ \A p \in Questions \cup Prompts :
              Trim(p) # Trim(q) =>
                FactLookup(facts', p, TRUE) = FactLookup(facts, p, TRUE)]_vars

\* a fact has been stored while a fact for another question was there, and
\* the other question still returns its answer
C21_Witness ==
  /\ resp.op = "feedback" /\ resp.stored
  /\ Len(facts) = 2
  /\ facts[1].q # facts[2].q
  /\ FactLookup(facts, facts[1].q, TRUE) = facts[1].a
  /\ resp.id = facts[2].id

----------------------------------------------------------------------------
(* Properties of the history table and of the answering routes.            *)

\* C22: history pairs are never interleaved: the table is a sequence of
\* exchanges, each a 'user' row immediately followed by the 'assistant' row
\* of the same session, the two with consecutive ids, whatever handlers were
\* suspended while others recorded.
C22_PairsBackToBack ==
  /\ Len(history) % 2 = 0
  /\ \A i \in 1..Len(history) :
       i % 2 = 1 =>
         /\ history[i].role = "user"
         /\ history[i + 1].role = "assistant"
         /\ history[i + 1].id = history[i].id + 1
         /\ history[i + 1].session_id = history[i].session_id

\* an exchange of the model path has been recorded by a handler that was
\* suspended together with another, and two handlers are suspended now
C22_Witness ==
  /\ Len(history) = 2
  /\ resp.op \in {"aurion", "aurion_stream"} /\ resp.mode = "llm"
  /\ resp.status = 200
  /\ Cardinality({s \in Slots : inflight[s].pc = "llm"}) >= 2

C24_ChunkIndependent ==
  (relay.body # NULL /\ relay.rest = NULL) =>
    relay.written = Responses(Split(relay.body, <<>>))

\* C25: no second response after streaming has begun: once something has been
\* written to the client, the handler of /aurion_stream never sets status 500
\* with a JSON body.
C25_NoStatusAfterWrite ==
  (resp.op = "aurion_stream" /\ resp.written # NULL) => resp.status # 500

\* C29: the stored reply equals the streamed reply: when /aurion_stream has
\* streamed an answer and ends its response, the 'assistant' row it appends
\* holds the text that was written to the client.
C29_StoredEqualsStreamed ==
  [][(resp' # resp /\ resp'.op = "aurion_stream" /\ resp'.status = 200
        /\ resp'.mode = "llm" /\ resp'.written # NULL) =>
       /\ Len(history') = Len(history) + 2
       /\ history'[Len(history')].content = resp'.written]_vars

\* C26: context isolation between sessions: the rows a request puts into the
\* prompt of its model call are rows of its own session only, whether or not
\* the request carries a session_id.
C26_ContextIsolation ==
  [][\A p \in ChatPrompts, sid \in ChatSessions :
       (CallsModel /\ (AurionBody(p, sid, TRUE) \/ AurionStreamBody(p, sid))) =>
         \A i \in 1..Len(ContextOf(sid)) :
           ContextOf(sid)[i].session_id = sid]_vars

\* C27: the research cache never serves a stale answer: a request answered
\* from the cache gets the answer of an entry written at most CACHE_TTL
\* earlier; a request that finds an older entry under its key leaves the
\* table without it and goes on to query the search API.
C27_NeverStale ==
  [][\A p \in CachePrompts :
       (Aurion(p, TRUE) \/ AurionStream(p)) =>
         LET key    == ResearchKey(p)
             served == inflight' = inflight
         IN  /\ served =>
                  \E r \in cache : /\ r.key = key
                                   /\ r.answer = resp'.reply
                                   /\ hours - r.created_at <= CACHE_TTL_HOURS
             /\ (\E r \in cache : r.key = key /\ hours - r.created_at > CACHE_TTL_HOURS)
                  => /\ \A r \in cache' : r.key # key
                     /\ \E s \in Slots : inflight'[s].pc = "search"]_vars

\* an entry written after the sixth hour has been served from the cache
C27_Witness ==
  /\ resp.cached /\ resp.mode = "research"
  /\ \E r \in cache : /\ r.key = ResearchKey(PrixPadded)
                      /\ r.answer = resp.reply
                      /\ r.created_at > CACHE_TTL_HOURS

\* C28: a failed generation leaves no trace in history: a step in which a
\* handler of /aurion ends because a model call threw (main call,
\* continuation or retry), its request left without a response, appends no
\* row.
C28_FailureLeavesNoTrace ==
  [][\A s \in Slots :
       (/\ inflight[s].ep = "aurion"
        /\ inflight' = Release(s)
        /\ resp'.op = "aurion" /\ resp'.status = 0) =>
         history' = history]_vars

\* the retry, third call of its request, has thrown and nothing is recorded
C28_Witness ==
  /\ resp.op = "aurion" /\ resp.status = 0
  /\ resp.calls = 3
  /\ history = <<>>

\* C30: bounded generation: a request of /aurion makes at most three model
\* calls; each return of a call either makes the next call (one more, never
\* a fourth) or ends the handler with exactly one response, a 200 that
\* reports at most three calls.
C30_BoundedGeneration ==
  [][\A s \in Slots :
       LET ends      == inflight' = Release(s)
           continues == /\ ~ends
                        /\ inflight'[s] # inflight[s]
                        /\ inflight' = [inflight EXCEPT ![s] = inflight'[s]]
       IN  (/\ inflight[s].ep = "aurion" /\ inflight[s].pc # "search"
            /\ \/ ends /\ resp'.status # 0
               \/ continues) =>
             /\ inflight[s].calls <= 3
             /\ IF ends
                THEN /\ resp'.op = "aurion" /\ resp'.status = 200
                     /\ resp'.calls = inflight[s].calls
                ELSE /\ resp' = resp
                     /\ inflight'[s].ep = "aurion"
                     /\ inflight'[s].calls = inflight[s].calls + 1
                     /\ inflight'[s].calls <= 3]_vars

\* a reply has been sent after the main call, the continuation and the retry
C30_Witness ==
  /\ resp.op = "aurion" /\ resp.status = 200
  /\ resp.calls = 3
  /\ Len(history) = 2 /\ history[2].content = resp.reply

====
